---------------------------- MODULE Spec2Model ----------------------------
(***************************************************************************)
(* A model of @li0ard/gost3413: the padding procedures, the classical      *)
(* block-cipher modes, CMAC, the ACPKM re-keying modes and the MGM         *)
(* authenticated-encryption class.                                         *)
(*                                                                         *)
(* A Uint8Array is a sequence of octets (0..255).  A bigint is the set of   *)
(* the positions of its 1 bits, the least significant being 0 ({} is 0n):  *)
(* block-sized integers do not fit the checker's machine integers.  A      *)
(* hex string is a sequence of hex digits (0..15), first character first.  *)
(* A call that can throw yields a record [err, val]: err = "" and val the   *)
(* value returned, or err the message of the Error thrown.                 *)
(***************************************************************************)
EXTENDS Integers, Sequences, FiniteSets

VARIABLES
    op,          \* the library function the caller ran last ("init": none yet)
    blockSize,   \* the blockSize argument
    key,         \* the key of the caller's block cipher
    data,        \* the data argument
    iv,          \* the iv argument
    out,         \* what the call returned or threw
    back,        \* what the inverse call (decrypt, unpad2, open) returned or threw
    mgm,         \* the MGM instance: its fields
    nonce,       \* the nonce given to seal and open
    additional,  \* the additional data given to seal
    received,    \* what open was given: ciphertext, additional data, how it was made
    steps,       \* the octets the tag comparison of the last open examined
    nonceBuf,    \* the caller's nonce buffer as the last seal or open left it
    acpkm        \* the ACPKM arguments of the call and what the call did with
                 \* the cipher constructor and the key material

vars == <<op, blockSize, key, data, iv, out, back,
          mgm, nonce, additional, received, steps, nonceBuf, acpkm>>

mgmVars == <<mgm, nonce, additional, received, steps, nonceBuf>>

-----------------------------------------------------------------------------
(* Results of calls *)

Ok(v) == [err |-> "", val |-> v]

Throw(msg) == [err |-> msg, val |-> <<>>]

None == [err |-> "not called", val |-> <<>>]

\* r, then F of its value: the Error of r when r threw, else F of what r
\* returned.
Try(r, F(_)) == IF r.err # "" THEN r ELSE F(r.val)

Min(a, b) == IF a < b THEN a ELSE b

Max(a, b) == IF a > b THEN a ELSE b

-----------------------------------------------------------------------------
(* Octets and typed arrays *)

\* Bit j of a ^ b, at its place
BitXor(a, b, j) ==
    IF ((a \div (2 ^ j)) % 2) = ((b \div (2 ^ j)) % 2) THEN 0 ELSE 2 ^ j

\* a ^ b on octets
ByteXor(a, b) ==
    BitXor(a, b, 0) + BitXor(a, b, 1) + BitXor(a, b, 2) + BitXor(a, b, 3)
    + BitXor(a, b, 4) + BitXor(a, b, 5) + BitXor(a, b, 6) + BitXor(a, b, 7)

\* new Uint8Array(n): n zero octets
Zeros(n) == [i \in 1..n |-> 0] \o <<>>

\* new Uint8Array(n).fill(v)
Fill(n, v) == [i \in 1..n |-> v] \o <<>>

\* A relative index of subarray/slice: negative counts from the end, clamped.
RelIndex(i, len) == IF i < 0 THEN Max(len + i, 0) ELSE Min(i, len)

\* a.subarray(begin, end) (and a.slice(begin, end)): 0-based, end exclusive
subarray(a, begin, end) ==
    LET b == RelIndex(begin, Len(a))
        e == RelIndex(end, Len(a))
    IN  IF e <= b THEN <<>> ELSE SubSeq(a, b + 1, e)

\* a.subarray(begin)
subarrayFrom(a, begin) == subarray(a, begin, Len(a))

xor(a, b) ==
    LET mlen == Min(Len(a), Len(b))
    IN  [i \in 1..mlen |-> ByteXor(a[i], b[i])] \o <<>>

concatBytes(a, b) == a \o b

\* concatBytes(...arrays) of a list of arrays
RECURSIVE concatAll(_)
concatAll(arrays) ==
    IF arrays = <<>> THEN <<>> ELSE Head(arrays) \o concatAll(Tail(arrays))

-----------------------------------------------------------------------------
(* Hex strings and bigints *)

bytesToHex(bytes) ==
    [i \in 1..(2 * Len(bytes)) |->
        IF i % 2 = 1 THEN (bytes[(i + 1) \div 2]) \div 16
                     ELSE (bytes[i \div 2]) % 16] \o <<>>

hexToBytes(hex) ==
    IF (Len(hex) % 2) = 1
    THEN Throw("hex string expected, got unpadded hex")
    ELSE Ok([ai \in 1..(Len(hex) \div 2) |-> (hex[(2 * ai) - 1] * 16) + hex[2 * ai]]
            \o <<>>)

\* A bigint is the set of the positions of its 1 bits, 0 the least
\* significant: 0n is {}, 5n is {0, 2}.

\* Bit j (0 = least significant) of a hex string read as a number.
HexBit(hex, j) == ((hex[Len(hex) - (j \div 4)]) \div (2 ^ (j % 4))) % 2

\* hexToNumber: '' is 0n, else BigInt('0x' + hex)
hexToNumber(hex) == {j \in 0..((4 * Len(hex)) - 1) : HexBit(hex, j) = 1}

bytesToNumberBE(bytes) == hexToNumber(bytesToHex(bytes))

BigBit(n, j) == IF j \in n THEN 1 ELSE 0

\* The number of bits of n: 0 for 0n
BigLen(n) == IF n = {} THEN 0 ELSE (CHOOSE j \in n : \A q \in n : q <= j) + 1

\* n.toString(16): no leading zero digits, "0" for zero
toString16(n) ==
    IF n = {} THEN <<0>>
    ELSE LET digits == (BigLen(n) + 3) \div 4
         IN  [d \in 1..digits |->
                LET lo == 4 * (digits - d)
                IN  BigBit(n, lo) + (2 * BigBit(n, lo + 1))
                    + (4 * BigBit(n, lo + 2)) + (8 * BigBit(n, lo + 3))] \o <<>>

\* s.padStart(targetLength, '0')
padStart(s, targetLength) ==
    IF Len(s) >= targetLength THEN s
    ELSE [i \in 1..(targetLength - Len(s)) |-> 0] \o s

numberToBytesBE(n, len) == hexToBytes(padStart(toString16(n), len * 2))

\* BigInt(k) of a non-negative machine integer
BigFromNat(k) == {j \in 0..30 : (k \div (2 ^ j)) % 2 = 1}

\* n << BigInt(k)
BigShl(n, k) == {j + k : j \in n}

\* n << 1n, n * 2n
BigShl1(n) == BigShl(n, 1)

\* n >> 1n
BigShr1(n) == {j - 1 : j \in n \ {0}}

\* a ^ b
BigXor(a, b) == {j \in a \cup b : (j \in a) # (j \in b)}

\* The carry into bit j of a + b: some lower bit generates one and every bit
\* between passes it on.
Carry(a, b, j) ==
    IF \E g \in (a \cap b) :
          /\ g < j
          /\ \A q \in (g + 1)..(j - 1) : q \in (a \cup b)
    THEN 1 ELSE 0

\* a + b
BigAdd(a, b) ==
    {j \in 0..Max(BigLen(a), BigLen(b)) :
        (BigBit(a, j) + BigBit(b, j) + Carry(a, b, j)) % 2 = 1}

\* n + 1n: the 1 bits below the lowest 0 bit become 0, that bit becomes 1
BigAdd1(n) ==
    LET low == CHOOSE j \in 0..Cardinality(n) : j \notin n /\ (0..(j - 1)) \subseteq n
    IN  (n \ (0..(low - 1))) \cup {low}

\* a > b: a has the highest bit in which they differ
BigGT(a, b) == BigLen(a \ b) > BigLen(b \ a)

-----------------------------------------------------------------------------
(* The caller's block cipher: a keyed permutation of blocks, of any width.  *)
(* The library never looks inside it; the model's cipher rotates the block  *)
(* one octet to the left and XORs the key, repeated to the block's length.  *)

KeyBlock(k, n) == [i \in 1..n |-> k[((i - 1) % Len(k)) + 1]] \o <<>>

RotL(block) == [i \in 1..Len(block) |-> block[(i % Len(block)) + 1]] \o <<>>

RotR(block) ==
    [i \in 1..Len(block) |-> block[((i + Len(block) - 2) % Len(block)) + 1]] \o <<>>

encrypter(k, block) == xor(RotL(block), KeyBlock(k, Len(block)))

decrypter(k, block) == RotR(xor(block, KeyBlock(k, Len(block))))

-----------------------------------------------------------------------------
(* Padding: src/src/index.ts *)

getPadLength(dataLength, bs) ==
    IF dataLength < bs THEN bs - dataLength
    ELSE IF dataLength % bs = 0 THEN 0
    ELSE bs - (dataLength % bs)

pad1(d, bs) == d \o Zeros(getPadLength(Len(d), bs))

pad2(d, bs) == d \o <<128>> \o Zeros(getPadLength(Len(d) + 1, bs))

\* A variant that scans left to right: the first 0x80 of lastBlock.
padIndexOf_first(lastBlock) ==
    LET marks == {i \in 1..Len(lastBlock) : lastBlock[i] = 128}
    IN  IF marks = {} THEN -1
        ELSE (CHOOSE i \in marks : \A j \in marks : i <= j) - 1

\* The 0-based index of the last 0x80 of lastBlock, -1 when it holds none.
padIndexOf(lastBlock) ==
    LET marks == {i \in 1..Len(lastBlock) : lastBlock[i] = 128}
    IN  IF marks = {} THEN -1
        ELSE (CHOOSE i \in marks : \A j \in marks : j <= i) - 1

unpad2(d, bs) ==
    LET lastBlock == subarrayFrom(d, Len(d) - bs)
        padIndex  == padIndexOf(lastBlock)
    IN  IF padIndex = -1
        THEN Throw("Padding marker (0x80) not found")
        ELSE IF \E i \in (padIndex + 2)..Len(lastBlock) : lastBlock[i] # 0
        THEN Throw("Invalid padding: non-zero bytes after 0x80")
        ELSE Ok(subarray(d, 0, Len(d) - (bs - padIndex)))

\* A variant that tests the length's remainder alone.
pad3_remainder(d, bs) == IF Len(d) % bs = 0 THEN d ELSE pad2(d, bs)

pad3(d, bs) == IF getPadLength(Len(d), bs) = 0 THEN d ELSE pad2(d, bs)

-----------------------------------------------------------------------------
(* The classical modes: src/src/index.ts *)

\* The register r: the blocks of the IV, oldest first.
RECURSIVE ivBlocks(_, _, _)
ivBlocks(v, bs, i) ==
    IF i >= Len(v) THEN <<>>
    ELSE <<subarray(v, i, i + bs)>> \o ivBlocks(v, bs, i + bs)

RECURSIVE ecbLoop(_, _, _, _, _)
ecbLoop(k, bs, d, i, dec) ==
    IF i >= Len(d) THEN <<>>
    ELSE LET chunk == subarray(d, i, i + bs)
         IN  (IF dec THEN decrypter(k, chunk) ELSE encrypter(k, chunk))
             \o ecbLoop(k, bs, d, i + bs, dec)

ecb_encrypt(k, bs, d) ==
    IF Len(d) = 0 \/ Len(d) % bs # 0 THEN Throw("Data not aligned")
    ELSE Ok(ecbLoop(k, bs, d, 0, FALSE))

ecb_decrypt(k, bs, d) ==
    IF Len(d) = 0 \/ Len(d) % bs # 0 THEN Throw("Data not aligned")
    ELSE Ok(ecbLoop(k, bs, d, 0, TRUE))

RECURSIVE ofbLoop(_, _, _, _, _)
ofbLoop(k, bs, d, r, i) ==
    IF i >= Len(d) + getPadLength(Len(d), bs) THEN <<>>
    ELSE LET r2 == Tail(r) \o <<encrypter(k, r[1])>>
             keystreamBlock == r2[Len(r2)]
             dataBlock == subarray(d, i, i + bs)
         IN  xor(keystreamBlock, dataBlock) \o ofbLoop(k, bs, d, r2, i + bs)

ofb(k, bs, d, v) ==
    IF Len(v) = 0 \/ Len(v) % bs # 0 THEN Throw("Invalid IV size")
    ELSE Ok(ofbLoop(k, bs, d, ivBlocks(v, bs, 0), 0))

RECURSIVE cbcEncLoop(_, _, _, _, _)
cbcEncLoop(k, bs, d, r, i) ==
    IF i >= Len(d) THEN <<>>
    ELSE LET c == encrypter(k, xor(r[1], subarray(d, i, i + bs)))
         IN  c \o cbcEncLoop(k, bs, d, Tail(r) \o <<c>>, i + bs)

cbc_encrypt(k, bs, d, v) ==
    IF Len(d) = 0 \/ Len(d) % bs # 0 THEN Throw("Data not aligned")
    ELSE IF Len(v) = 0 \/ Len(v) % bs # 0 THEN Throw("Invalid IV size")
    ELSE Ok(cbcEncLoop(k, bs, d, ivBlocks(v, bs, 0), 0))

\* A variant that feeds the register the decrypted block.
RECURSIVE cbcDecLoop_plainFeedback(_, _, _, _, _)
cbcDecLoop_plainFeedback(k, bs, d, r, i) ==
    IF i >= Len(d) THEN <<>>
    ELSE LET blk == subarray(d, i, i + bs)
             pt  == xor(r[1], decrypter(k, blk))
         IN  pt \o cbcDecLoop_plainFeedback(k, bs, d, Tail(r) \o <<pt>>, i + bs)

RECURSIVE cbcDecLoop(_, _, _, _, _)
cbcDecLoop(k, bs, d, r, i) ==
    IF i >= Len(d) THEN <<>>
    ELSE LET blk == subarray(d, i, i + bs)
         IN  xor(r[1], decrypter(k, blk))
             \o cbcDecLoop(k, bs, d, Tail(r) \o <<blk>>, i + bs)

cbc_decrypt(k, bs, d, v) ==
    IF Len(d) = 0 \/ Len(d) % bs # 0 THEN Throw("Data not aligned")
    ELSE IF Len(v) = 0 \/ Len(v) % bs # 0 THEN Throw("Invalid IV size")
    ELSE Ok(cbcDecLoop(k, bs, d, ivBlocks(v, bs, 0), 0))

RECURSIVE cfbEncLoop(_, _, _, _, _)
cfbEncLoop(k, bs, d, r, i) ==
    IF i >= Len(d) + getPadLength(Len(d), bs) THEN <<>>
    ELSE LET c == xor(encrypter(k, r[1]), subarray(d, i, i + bs))
         IN  c \o cfbEncLoop(k, bs, d, Tail(r) \o <<c>>, i + bs)

cfb_encrypt(k, bs, d, v) ==
    IF Len(v) = 0 \/ Len(v) % bs # 0 THEN Throw("Invalid IV size")
    ELSE Ok(cfbEncLoop(k, bs, d, ivBlocks(v, bs, 0), 0))

\* The block function cfb_decrypt is given is the cipher's encryption.
RECURSIVE cfbDecLoop(_, _, _, _, _)
cfbDecLoop(k, bs, d, r, i) ==
    IF i >= Len(d) + getPadLength(Len(d), bs) THEN <<>>
    ELSE LET blk == subarray(d, i, i + bs)
         IN  xor(encrypter(k, r[1]), blk)
             \o cfbDecLoop(k, bs, d, Tail(r) \o <<blk>>, i + bs)

cfb_decrypt(k, bs, d, v) ==
    IF Len(v) = 0 \/ Len(v) % bs # 0 THEN Throw("Invalid IV size")
    ELSE Ok(cfbDecLoop(k, bs, d, ivBlocks(v, bs, 0), 0))

-----------------------------------------------------------------------------
(* CTR and ACPKM key derivation: src/src/index.ts *)

KEYSIZE == 32

\* n * BigInt(k) for a machine integer k: the sum of n << j over the 1 bits j
\* of k
RECURSIVE BigMulBits(_, _)
BigMulBits(n, bits) ==
    IF bits = {} THEN {}
    ELSE LET j == CHOOSE b \in bits : TRUE
         IN  BigAdd(BigShl(n, j), BigMulBits(n, bits \ {j}))

BigMulNat(n, k) == BigMulBits(n, BigFromNat(k))

\* 1n << BigInt(k)
BigPow2(k) == {k}

\* The blocks encrypted by acpkmDerivation: octet i of block d is d + i.
RECURSIVE acpkmLoop(_, _, _)
acpkmLoop(k, bs, d) ==
    IF d >= 128 + (bs * (KEYSIZE \div bs)) THEN <<>>
    ELSE encrypter(k, [i \in 1..bs |-> (d + i - 1) % 256] \o <<>>)
         \o acpkmLoop(k, bs, d + bs)

acpkmDerivation(k, bs) == acpkmLoop(k, bs, 128)

NoAcpkm == [on |-> FALSE, sectionSize |-> 0]

\* A loop test that takes a new key before the first block as well.
ctrRekeys_firstBlock(acpkm_, bs, c) ==
    /\ acpkm_.on
    /\ (acpkm_.sectionSize \div bs) # 0
    /\ c % (acpkm_.sectionSize \div bs) = 0

\* `acpkm && ctr != 0 && (ctr % acpkmSectionSize) == 0`, acpkmSectionSize
\* being (sectionSize / blockSize) | 0; ctr % 0 is NaN, which equals nothing.
ctrRekeys(acpkm_, bs, c) ==
    /\ acpkm_.on
    /\ c # 0
    /\ (acpkm_.sectionSize \div bs) # 0
    /\ c % (acpkm_.sectionSize \div bs) = 0

\* One turn of ctr's loop, none once the counter is n or a turn threw.  s is
\* the loop's state: the counter, the key of the encrypter, the keystream, the
\* calls of the cipher constructor (the counter value before whose block it
\* was called, and the key it was given) and the Error thrown, if any.
ctrStep(s, bs, n, v, acpkm_) ==
    IF s.ctr >= n \/ s.err # "" THEN s
    ELSE LET rekey == ctrRekeys(acpkm_, bs, s.ctr)
             k2 == IF rekey THEN acpkmDerivation(s.key, bs) ELSE s.key
             cb == numberToBytesBE(BigFromNat(s.ctr), bs \div 2)
         IN  [ctr |-> s.ctr + 1,
              key |-> k2,
              keystream |-> IF cb.err # "" THEN s.keystream
                            ELSE s.keystream \o encrypter(k2, v \o cb.val),
              cipherClass |-> IF rekey
                              THEN Append(s.cipherClass, [ctr |-> s.ctr, key |-> k2])
                              ELSE s.cipherClass,
              err |-> cb.err]

ctrStep4(s, bs, n, v, acpkm_) ==
    ctrStep(ctrStep(ctrStep(ctrStep(s, bs, n, v, acpkm_), bs, n, v, acpkm_),
                    bs, n, v, acpkm_), bs, n, v, acpkm_)

\* The loop of ctr, eight turns at a time: its state when it ends.
RECURSIVE ctrLoop(_, _, _, _, _)
ctrLoop(s, bs, n, v, acpkm_) ==
    IF s.ctr >= n \/ s.err # "" THEN s
    ELSE ctrLoop(ctrStep4(ctrStep4(s, bs, n, v, acpkm_), bs, n, v, acpkm_),
                 bs, n, v, acpkm_)

\* ctr from its loop on: what the loop made, or the Error of the counter's
\* conversion.
ctrBlocks(k, bs, d, v, acpkm_) ==
    LET s == ctrLoop([ctr |-> 0, key |-> k, keystream |-> <<>>,
                      cipherClass |-> <<>>, err |-> ""],
                     bs, (Len(d) + bs - 1) \div bs, v, acpkm_)
    IN  [err |-> s.err, val |-> s]

ctr(k, bs, d, v, acpkm_) ==
    LET halfBlockSize == bs \div 2
        ctrMax  == BigPow2(8 * halfBlockSize)
        maxSize == BigMulNat(ctrMax, bs)
    IN  IF Len(v) # halfBlockSize THEN Throw("Invalid IV size")
        ELSE IF BigGT(BigFromNat(Len(d)), maxSize) THEN Throw("Too big data")
        ELSE Try(ctrBlocks(k, bs, d, v, acpkm_), LAMBDA made :
             Ok(xor(made.keystream, d)))

ctr_acpkm(k, sectionSize, bs, d, v) ==
    ctr(k, bs, d, v, [on |-> TRUE, sectionSize |-> sectionSize])

\* The calls ctr_acpkm makes of the cipher constructor, in order: none when
\* ctr throws before its loop.
ctr_acpkm_cipherClass(k, sectionSize, bs, d, v) ==
    IF ctr_acpkm(k, sectionSize, bs, d, v).err # "" THEN <<>>
    ELSE ctrBlocks(k, bs, d, v, [on |-> TRUE, sectionSize |-> sectionSize]).val.cipherClass

acpkmDerivationMaster(k, keySectionSize, bs, keyMaterialLength) ==
    ctr_acpkm(k, keySectionSize, bs, Fill(keyMaterialLength, 0), Fill(bs \div 2, 255))

-----------------------------------------------------------------------------
(* CMAC / OMAC1: src/src/index.ts *)

Rb64 == 27

Rb128 == 135

macShift(bs, d, xorLsb) ==
    LET num == BigXor(BigShl1(bytesToNumberBE(d)), BigFromNat(xorLsb))
    IN  Try(numberToBytesBE(num, bs), LAMBDA b : Ok(subarrayFrom(b, -bs)))

\* macShift of a block with Rb when the top bit of the block is set
macSubkey(bs, block) ==
    IF block[1] >= 128
    THEN macShift(bs, block, IF bs = 16 THEN Rb128 ELSE Rb64)
    ELSE macShift(bs, block, 0)

\* [k1, k2], or the Error thrown while deriving them
macKs(k, bs) ==
    Try(macSubkey(bs, encrypter(k, Zeros(bs))), LAMBDA k1 :
    Try(macSubkey(bs, k1), LAMBDA k2 :
    Ok(<<k1, k2>>)))

\* The loop `for (let i = 0; i < tail_offset; i += blockSize)` of mac from the
\* state s on, its prev and its i: prev when it ends.
RECURSIVE macLoop(_, _, _, _, _)
macLoop(k, bs, d, tailOffset, s) ==
    IF s.i >= tailOffset THEN s.prev
    ELSE macLoop(k, bs, d, tailOffset,
                 [prev |-> encrypter(k, xor(subarray(d, s.i, s.i + bs), s.prev)),
                  i |-> s.i + bs])

mac(k, bs, d) ==
    Try(macKs(k, bs), LAMBDA ks :
        LET tailOffset == IF Len(d) % bs = 0 THEN Len(d) - bs
                          ELSE Len(d) - (Len(d) % bs)
            prev == macLoop(k, bs, d, tailOffset, [prev |-> Zeros(bs), i |-> 0])
            tail == subarrayFrom(d, tailOffset)
            xorWithPrev == xor(pad3(tail, bs), prev)
        IN  Ok(encrypter(k, xor(xorWithPrev, IF Len(tail) = bs THEN ks[1] ELSE ks[2]))))

-----------------------------------------------------------------------------
(* OMAC-ACPKM: src/src/index.ts *)

omacTailOffset(d, bs) ==
    IF Len(d) % bs = 0 THEN Len(d) - bs ELSE Len(d) - (Len(d) % bs)

\* `sections = data.length`, plus one when sectionSize does not divide it
omacSections(d, sectionSize) ==
    Len(d) + (IF Len(d) % sectionSize # 0 THEN 1 ELSE 0)

\* The locals of omac_acpkm_master before its loop: the key material still to
\* be used, the key of the encrypter, k1, prev, and the (key, k1) taken so far.
omacStart(k, sectionSize, bs, keymats) ==
    [keymats |-> keymats, key |-> k, k1 |-> Zeros(sectionSize),
     prev |-> Zeros(bs), tuples |-> <<>>]

\* The loop of omac_acpkm_master from offset i on.
RECURSIVE omacLoop(_, _, _, _, _, _)
omacLoop(s, sectionSize, bs, d, tail_offset, i) ==
    IF i >= tail_offset THEN s
    ELSE LET keymat == subarray(s.keymats, 0, KEYSIZE + bs)
             taken  == [key |-> subarray(keymat, 0, KEYSIZE),
                        k1  |-> subarrayFrom(keymat, KEYSIZE)]
             t == IF i % sectionSize = 0
                  THEN [s EXCEPT !.keymats = subarrayFrom(s.keymats, KEYSIZE + bs),
                                 !.key = taken.key,
                                 !.k1 = taken.k1,
                                 !.tuples = Append(@, taken)]
                  ELSE s
         IN  omacLoop([t EXCEPT !.prev = encrypter(t.key, xor(subarray(d, i, i + bs), @))],
                      sectionSize, bs, d, tail_offset, i + bs)

\* `if(tail.length == blockSize) { ... }`: the key is the next KEYSIZE octets
\* of the key material and k1 is all that follows them.
omacTail(s, bs, tail) ==
    IF Len(tail) # bs THEN s
    ELSE LET taken == [key |-> subarray(s.keymats, 0, KEYSIZE),
                       k1  |-> subarrayFrom(s.keymats, KEYSIZE)]
         IN  [s EXCEPT !.key = taken.key, !.k1 = taken.k1,
                       !.tuples = Append(@, taken)]

\* omac_acpkm_master up to its derivation of k2: its locals then, or the
\* Error of acpkmDerivationMaster.
omacLocals(k, keySectionSize, sectionSize, bs, d) ==
    Try(acpkmDerivationMaster(k, keySectionSize, bs,
                              (KEYSIZE + bs) * omacSections(d, sectionSize)),
        LAMBDA keymats :
    Ok(omacTail(omacLoop(omacStart(k, sectionSize, bs, keymats), sectionSize, bs, d,
                         omacTailOffset(d, bs), 0),
                bs, subarrayFrom(d, omacTailOffset(d, bs)))))

\* k2 of k1: k1 << 1n in blockSize octets or more, and Rb XORed in when the
\* top bit of k1's first octet is set.
omacK2(k1, bs) ==
    Try(numberToBytesBE(BigShl1(bytesToNumberBE(k1)), bs), LAMBDA k2 :
    IF k1 # <<>> /\ k1[1] >= 128
    THEN Try(numberToBytesBE(BigFromNat(IF bs = 16 THEN Rb128 ELSE Rb64), bs),
             LAMBDA rb : Ok(xor(k2, rb)))
    ELSE Ok(k2))

\* omac_acpkm_master from its derivation of k2 on, s being its locals.
omacFinal(s, bs, tail) ==
    Try(omacK2(s.k1, bs), LAMBDA k2 :
    Ok(encrypter(s.key, xor(xor(pad3(tail, bs), s.prev),
                            IF Len(tail) = bs THEN s.k1 ELSE k2))))

omac_acpkm_master(k, keySectionSize, sectionSize, bs, d) ==
    Try(omacLocals(k, keySectionSize, sectionSize, bs, d), LAMBDA s :
    omacFinal(s, bs, subarrayFrom(d, omacTailOffset(d, bs))))

-----------------------------------------------------------------------------
(* MGM: src/src/mgm.ts *)

incr(d, bs) == numberToBytesBE(BigAdd1(bytesToNumberBE(d)), bs \div 2)

incr_r(d, bs) ==
    Try(incr(subarrayFrom(d, bs \div 2), bs), LAMBDA low :
    Ok(subarray(d, 0, bs \div 2) \o low))

incr_l(d, bs) ==
    Try(incr(subarray(d, 0, bs \div 2), bs), LAMBDA high :
    Ok(high \o subarrayFrom(d, bs \div 2)))

\* n[0] &= 0x7F
ClearMSB(n) == IF n = <<>> THEN n ELSE [n EXCEPT ![1] = @ % 128]

\* n[0] |= 0x80
SetMSB(n) == IF n = <<>> THEN n ELSE [n EXCEPT ![1] = (@ % 128) + 128]

nonce_prepare(n) == ClearMSB(n)

\* new MGM(encrypter, blockSize, tagSize): tagSize is <<>> when not given,
\* <<t>> when given as t.  The instance, or the Error thrown.
MGM_constructor(k, bs, tagSize) ==
    LET tag_size == IF tagSize = <<>> THEN bs ELSE tagSize[1]
    IN  IF bs # 8 /\ bs # 16 THEN Throw("Only 64/128-bit block size")
        ELSE IF tag_size < 4 \/ tag_size > bs THEN Throw("Invalid tagSize")
        ELSE Ok([tag_size  |-> tag_size,
                 encrypter |-> k,
                 blockSize |-> bs,
                 max_size  |-> 0..((bs * 4) - 1),
                 r         |-> IF bs = 8 THEN 27 ELSE 135])

\* validateNonce is called nowhere: seal and open have the call commented out.
validateNonce(m, n) ==
    IF Len(n) # m.blockSize THEN Throw("Invalid nonce length")
    ELSE IF n[1] >= 128 THEN Throw("Invalid nonce")
    ELSE Ok(<<>>)

validateSizes(m, plaintext, additional_data) ==
    IF Len(plaintext) = 0 /\ Len(additional_data) = 0
    THEN Throw("At least one of plaintext or additional_data required")
    ELSE IF BigGT(BigFromNat(Len(plaintext) + Len(additional_data)), m.max_size)
    THEN Throw("plaintext+additional_data are too big")
    ELSE Ok(<<>>)

\* A turn of mul's loop that does not fold the top bit of x back in.
mulStep_noReduction(s, nbits, r) ==
    LET x == s[1]
        y == s[2]
        z == s[3]
    IN  IF y = {} THEN s
        ELSE <<IF BigBit(x, nbits - 1) = 1
               THEN BigShl1(BigXor(x, BigPow2(nbits - 1)))
               ELSE BigShl1(x),
               BigShr1(y),
               IF 0 \in y THEN BigXor(z, x) ELSE z>>

\* One turn of mul's loop on s = <<x, y, z>>; none once y is 0.
mulStep(s, nbits, r) ==
    LET x == s[1]
        y == s[2]
        z == s[3]
    IN  IF y = {} THEN s
        ELSE <<IF BigBit(x, nbits - 1) = 1
               THEN BigXor(BigShl1(BigXor(x, BigPow2(nbits - 1))), r)
               ELSE BigShl1(x),
               BigShr1(y),
               IF 0 \in y THEN BigXor(z, x) ELSE z>>

\* mul's loop `while (y > 0n)` from s on, the first half of its turns and then
\* the rest: <<x, y, z>> when it ends.  y loses its lowest bit in each turn,
\* so the loop takes n turns when y has n bits.
RECURSIVE mulLoop(_, _, _, _)
mulLoop(s, nbits, r, n) ==
    IF s[2] = {} \/ n = 0 THEN s
    ELSE IF n = 1 THEN mulStep(s, nbits, r)
    ELSE mulLoop(mulLoop(s, nbits, r, n \div 2), nbits, r, n - (n \div 2))

mul(m, a, b) ==
    numberToBytesBE(mulLoop(<<bytesToNumberBE(a), bytesToNumberBE(b), {}>>,
                            m.blockSize * 8, BigFromNat(m.r),
                            BigLen(bytesToNumberBE(b)))[3],
                    m.blockSize)

\* The loop of crypt from register value enc on.
RECURSIVE cryptLoop(_, _, _)
cryptLoop(m, enc, d) ==
    IF Len(d) = 0 THEN Ok(<<>>)
    ELSE Try(incr_r(enc, m.blockSize), LAMBDA enc2 :
         Try(cryptLoop(m, enc2, subarrayFrom(d, m.blockSize)), LAMBDA rest :
         Ok(xor(encrypter(m.encrypter, enc), d) \o rest)))

\* crypt clears the top bit of the caller's icn in place, then encrypts.
crypt(m, icn, d) == cryptLoop(m, encrypter(m.encrypter, ClearMSB(icn)), d)

\* One of auth's two loops, over the blocks of d, from s = <<enc, _sum>> on:
\* <<enc, _sum>> after it.
RECURSIVE authLoop(_, _, _)
authLoop(m, s, d) ==
    IF Len(d) = 0 THEN Ok(s)
    ELSE Try(mul(m, encrypter(m.encrypter, s[1]),
                 pad1(subarray(d, 0, m.blockSize), m.blockSize)), LAMBDA prod :
         Try(incr_l(s[1], m.blockSize), LAMBDA enc2 :
         authLoop(m, <<enc2, xor(s[2], prod)>>, subarrayFrom(d, m.blockSize))))

\* auth sets the top bit of the caller's icn in place, then authenticates.
auth(m, icn, text, ad) ==
    Try(authLoop(m, <<encrypter(m.encrypter, SetMSB(icn)), Zeros(m.blockSize)>>, ad),
        LAMBDA afterAd :
    Try(authLoop(m, afterAd, text), LAMBDA afterText :
    Try(numberToBytesBE(BigFromNat(Len(ad) * 8), m.blockSize \div 2), LAMBDA adLen :
    Try(numberToBytesBE(BigFromNat(Len(text) * 8), m.blockSize \div 2), LAMBDA textLen :
    Try(mul(m, encrypter(m.encrypter, afterText[1]), adLen \o textLen), LAMBDA prod :
    Ok(subarray(encrypter(m.encrypter, xor(afterText[2], prod)), 0, m.tag_size)))))))

\* The caller's nonce buffer after seal or open returned or threw: both work
\* on icn, the copy made by `nonce.slice()`, and write to nothing else.
callerNonce(n, icn) == n

\* icn when seal returns or throws: crypt clears its top bit, auth then sets it.
sealIcn(m, n, plaintext, additional_data) ==
    IF validateSizes(m, plaintext, additional_data).err # "" THEN n
    ELSE IF crypt(m, n, plaintext).err # "" THEN ClearMSB(n)
    ELSE SetMSB(n)

seal(m, n, plaintext, additional_data) ==
    Try(validateSizes(m, plaintext, additional_data), LAMBDA valid :
    Try(crypt(m, n, plaintext), LAMBDA ciphertext :
    Try(auth(m, ClearMSB(n), ciphertext, additional_data), LAMBDA tag :
    Ok(ciphertext \o tag))))

\* A comparison that looks at the lengths only.
BufferEquals_lengthOnly(a, b) == Len(a) = Len(b)

\* Buffer.from(a).equals(b): equal lengths and equal octets.
BufferEquals(a, b) == a = b

\* The octets a comparison of a with b may examine before it answers: the
\* library leaves the comparison to Buffer.equals, which may stop at the
\* first difference or at any later octet.
EqualsSteps(a, b) ==
    IF Len(a) # Len(b) THEN {0}
    ELSE LET diffs == {i \in 1..Len(a) : a[i] # b[i]}
         IN  IF diffs = {} THEN {Len(a)}
             ELSE (CHOOSE i \in diffs : \A j \in diffs : i <= j)..Len(a)

\* open splits its input: the body
open_ct(m, ciphertext) == subarray(ciphertext, 0, Len(ciphertext) - m.tag_size)

\* open splits its input: the received tag
open_tag_expected(m, ciphertext) ==
    subarrayFrom(ciphertext, Len(ciphertext) - m.tag_size)

\* open up to its comparison of the tags: the size check and the tag
\* recomputed over the body.
openTag(m, n, ciphertext, additional_data) ==
    Try(validateSizes(m, ciphertext, additional_data), LAMBDA valid :
    auth(m, n, open_ct(m, ciphertext), additional_data))

\* crypt as the last step of open: what open returns or throws
openCrypt(pt) == [err |-> pt.err, val |-> pt.val, crypted |-> TRUE]

\* open from its comparison of the tags on, tag being what openTag returned
\* or threw: what open returns or throws, and whether crypt ran.
openCompare(m, n, ciphertext, tag) ==
    IF tag.err # "" THEN [err |-> tag.err, val |-> <<>>, crypted |-> FALSE]
    ELSE IF ~BufferEquals(open_tag_expected(m, ciphertext), tag.val)
    THEN [err |-> "Invalid authentication tag", val |-> <<>>, crypted |-> FALSE]
    ELSE openCrypt(crypt(m, SetMSB(n), open_ct(m, ciphertext)))

\* icn when open returns or throws, opened being what it returns or throws:
\* auth sets its top bit, crypt then clears it.
openIcn(m, n, ciphertext, additional_data, opened) ==
    IF validateSizes(m, ciphertext, additional_data).err # "" THEN n
    ELSE IF opened.crypted THEN ClearMSB(n)
    ELSE SetMSB(n)

open(m, n, ciphertext, additional_data) ==
    openCompare(m, n, ciphertext, openTag(m, n, ciphertext, additional_data))

-----------------------------------------------------------------------------
(* Inputs *)

\* The longest input of the padding procedures.
MaxPadLen == 17

\* The longest input of the modes.
MaxDataLen == 33

\* The longest input of mac.
MaxMacLen == 17

\* len octets, the i-th being seed + 37 i (mod 256)
Pattern(len, seed) == [i \in 1..len |-> (seed + (37 * i)) % 256] \o <<>>

\* The sequences of n octets of S
SeqsOf(S, n) == IF n = 0 THEN {<<>>} ELSE [1..n -> S]

\* Inputs of the padding procedures: every length up to MaxPadLen, ending in
\* every combination of 0x00, 0x80 and another octet.
PadInputs ==
    UNION {{Fill(len - Min(len, 2), 17) \o t : t \in SeqsOf({0, 128, 17}, Min(len, 2))}
           : len \in 0..MaxPadLen}

\* The keys of the cipher.  E(0 .. 0) is the key repeated, so the first octet
\* of a key is the first octet of CMAC's L: 0x00, 0x3A (top bits 00), 0x61
\* (top bits 01) and 0x9C (top bit 1).
Keys == {<<0>>, <<58, 92, 158>>, <<97, 200, 5>>, <<156, 7>>}

NoInstance == [tag_size |-> 0, encrypter |-> <<>>, blockSize |-> 0,
               max_size |-> {}, r |-> 0]

NotReceived == [ciphertext |-> <<>>, additional_data |-> <<>>, tamper |-> "none",
                nonce |-> <<>>]

NotOpened == [err |-> "not called", val |-> <<>>, crypted |-> FALSE]

\* No ACPKM call yet.
NoRekeying == [sectionSize |-> 0, keySectionSize |-> 0, cipherClass |-> <<>>,
               sections |-> 0, keymats |-> 0, locals |-> <<>>]

IdleMGM ==
    /\ mgm = NoInstance
    /\ nonce = <<>>
    /\ additional = <<>>
    /\ received = NotReceived
    /\ steps = 0
    /\ nonceBuf = <<>>

-----------------------------------------------------------------------------
(* The padding procedures, called on an input *)

InitPad ==
    /\ op = "init"
    /\ blockSize \in {8, 16}
    /\ key = <<>>
    /\ data \in PadInputs
    /\ iv = <<>>
    /\ out = None
    /\ back = None
    /\ IdleMGM
    /\ acpkm = NoRekeying

Pad1 ==
    /\ op = "init"
    /\ op' = "pad1"
    /\ out' = Ok(pad1(data, blockSize))
    /\ UNCHANGED <<blockSize, key, data, iv, back, mgmVars, acpkm>>

Pad2 ==
    /\ op = "init"
    /\ op' = "pad2"
    /\ out' = Ok(pad2(data, blockSize))
    /\ UNCHANGED <<blockSize, key, data, iv, back, mgmVars, acpkm>>

Pad3 ==
    /\ op = "init"
    /\ op' = "pad3"
    /\ out' = Ok(pad3(data, blockSize))
    /\ UNCHANGED <<blockSize, key, data, iv, back, mgmVars, acpkm>>

\* unpad2 of what pad2 returned
Unpad2 ==
    /\ op = "pad2"
    /\ op' = "unpad2"
    /\ back' = unpad2(out.val, blockSize)
    /\ UNCHANGED <<blockSize, key, data, iv, out, mgmVars, acpkm>>

\* unpad2 of an input that pad2 need not have made
Unpad2Raw ==
    /\ op = "init"
    /\ op' = "unpad2raw"
    /\ back' = unpad2(data, blockSize)
    /\ UNCHANGED <<blockSize, key, data, iv, out, mgmVars, acpkm>>

NextPad == Pad1 \/ Pad2 \/ Pad3 \/ Unpad2 \/ Unpad2Raw

SpecPad == InitPad /\ [][NextPad]_vars

-----------------------------------------------------------------------------
(* The modes, CMAC and the MGM constructor, called on an input *)

\* 8 and 16 are the block sizes of the supported ciphers; 4 is not one.
ModeBlockSizes == {4, 8, 16}

ModeData == {Pattern(len, 5) : len \in 0..MaxDataLen}

\* No IV, half a block (CTR), one block, a register of two blocks.
IVs(bs) == {Pattern(n, 201) : n \in {0, bs \div 2, bs, 2 * bs}}

\* The tagSize arguments given to the constructor: none, and 3 .. bs + 1.
TagArgs(bs) == {<<>>} \cup {<<t>> : t \in {3, 4, bs, bs + 1}}

InitModes ==
    /\ op = "init"
    /\ blockSize \in ModeBlockSizes
    /\ key \in Keys
    /\ data \in ModeData
    /\ iv \in IVs(blockSize)
    /\ out = None
    /\ back = None
    /\ IdleMGM
    /\ acpkm = NoRekeying

EcbEncrypt ==
    /\ op = "init"
    /\ op' = "ecb_encrypt"
    /\ out' = ecb_encrypt(key, blockSize, data)
    /\ UNCHANGED <<blockSize, key, data, iv, back, mgmVars, acpkm>>

EcbDecrypt ==
    /\ op = "ecb_encrypt"
    /\ out.err = ""
    /\ op' = "ecb_decrypt"
    /\ back' = ecb_decrypt(key, blockSize, out.val)
    /\ UNCHANGED <<blockSize, key, data, iv, out, mgmVars, acpkm>>

CbcEncrypt ==
    /\ op = "init"
    /\ op' = "cbc_encrypt"
    /\ out' = cbc_encrypt(key, blockSize, data, iv)
    /\ UNCHANGED <<blockSize, key, data, iv, back, mgmVars, acpkm>>

CbcDecrypt ==
    /\ op = "cbc_encrypt"
    /\ out.err = ""
    /\ op' = "cbc_decrypt"
    /\ back' = cbc_decrypt(key, blockSize, out.val, iv)
    /\ UNCHANGED <<blockSize, key, data, iv, out, mgmVars, acpkm>>

CfbEncrypt ==
    /\ op = "init"
    /\ op' = "cfb_encrypt"
    /\ out' = cfb_encrypt(key, blockSize, data, iv)
    /\ UNCHANGED <<blockSize, key, data, iv, back, mgmVars, acpkm>>

CfbDecrypt ==
    /\ op = "cfb_encrypt"
    /\ out.err = ""
    /\ op' = "cfb_decrypt"
    /\ back' = cfb_decrypt(key, blockSize, out.val, iv)
    /\ UNCHANGED <<blockSize, key, data, iv, out, mgmVars, acpkm>>

Ofb ==
    /\ op = "init"
    /\ op' = "ofb"
    /\ out' = ofb(key, blockSize, data, iv)
    /\ UNCHANGED <<blockSize, key, data, iv, back, mgmVars, acpkm>>

\* ofb of what ofb returned
OfbAgain ==
    /\ op = "ofb"
    /\ out.err = ""
    /\ op' = "ofb again"
    /\ back' = ofb(key, blockSize, out.val, iv)
    /\ UNCHANGED <<blockSize, key, data, iv, out, mgmVars, acpkm>>

Ctr ==
    /\ op = "init"
    /\ op' = "ctr"
    /\ out' = ctr(key, blockSize, data, iv, NoAcpkm)
    /\ UNCHANGED <<blockSize, key, data, iv, back, mgmVars, acpkm>>

\* ctr of what ctr returned
CtrAgain ==
    /\ op = "ctr"
    /\ out.err = ""
    /\ op' = "ctr again"
    /\ back' = ctr(key, blockSize, out.val, iv, NoAcpkm)
    /\ UNCHANGED <<blockSize, key, data, iv, out, mgmVars, acpkm>>

MacKs ==
    /\ op = "init"
    /\ op' = "macKs"
    /\ out' = macKs(key, blockSize)
    /\ UNCHANGED <<blockSize, key, data, iv, back, mgmVars, acpkm>>

Mac ==
    /\ op = "init"
    /\ op' = "mac"
    /\ out' = mac(key, blockSize, data)
    /\ UNCHANGED <<blockSize, key, data, iv, back, mgmVars, acpkm>>

NewMGM ==
    /\ op = "init"
    /\ \E tagSize \in TagArgs(blockSize) :
          LET made == MGM_constructor(key, blockSize, tagSize)
          IN  /\ out' = [err |-> made.err, val |-> <<>>]
              /\ mgm' = IF made.err = "" THEN made.val ELSE NoInstance
    /\ op' = "new MGM"
    /\ UNCHANGED <<blockSize, key, data, iv, back,
                   nonce, additional, received, steps, nonceBuf, acpkm>>

NextModes ==
    \/ EcbEncrypt \/ EcbDecrypt
    \/ CbcEncrypt \/ CbcDecrypt
    \/ CfbEncrypt \/ CfbDecrypt
    \/ Ofb \/ OfbAgain
    \/ Ctr \/ CtrAgain
    \/ MacKs \/ Mac
    \/ NewMGM

SpecModes == InitModes /\ [][NextModes]_vars

-----------------------------------------------------------------------------
(* The ACPKM modes, called on an input.  The cipher class builds the        *)
(* model's cipher from a key of KEYSIZE octets.                              *)

\* The longest input of omac_acpkm_master.
MaxOmacLen == 17

\* Keys of KEYSIZE octets: E(FF .. FF 00 .. 00) begins with an octet whose
\* top bit is set under the first and clear under the second.
AcpkmKeys == {Pattern(KEYSIZE, 5), Pattern(KEYSIZE, 201)}

\* Section sizes N: a block, two blocks, and one that is no multiple of the
\* block size.
SectionSizes(bs) == {bs, 2 * bs, bs + 4}

\* Key section sizes T*: two blocks and five blocks.
KeySectionSizes(bs) == {2 * bs, 5 * bs}

InitAcpkm ==
    /\ op = "init"
    /\ blockSize \in {8, 16}
    /\ key \in AcpkmKeys
    /\ data \in ModeData
    /\ iv = Pattern(blockSize \div 2, 201)
    /\ out = None
    /\ back = None
    /\ IdleMGM
    /\ \E n \in SectionSizes(blockSize), t \in KeySectionSizes(blockSize) :
          acpkm = [NoRekeying EXCEPT !.sectionSize = n, !.keySectionSize = t]

AcpkmDerivation ==
    /\ op = "init"
    /\ op' = "acpkmDerivation"
    /\ out' = Ok(acpkmDerivation(key, blockSize))
    /\ UNCHANGED <<blockSize, key, data, iv, back, mgmVars, acpkm>>

CtrAcpkm ==
    /\ op = "init"
    /\ op' = "ctr_acpkm"
    /\ out' = ctr_acpkm(key, acpkm.sectionSize, blockSize, data, iv)
    /\ acpkm' = [acpkm EXCEPT !.cipherClass =
                    ctr_acpkm_cipherClass(key, acpkm.sectionSize, blockSize, data, iv)]
    /\ UNCHANGED <<blockSize, key, data, iv, back, mgmVars>>

\* ctr_acpkm of what ctr_acpkm returned
CtrAcpkmAgain ==
    /\ op = "ctr_acpkm"
    /\ out.err = ""
    /\ op' = "ctr_acpkm again"
    /\ back' = ctr_acpkm(key, acpkm.sectionSize, blockSize, out.val, iv)
    /\ UNCHANGED <<blockSize, key, data, iv, out, mgmVars, acpkm>>

\* acpkmDerivationMaster for as many octets as the data has
AcpkmDerivationMaster ==
    /\ op = "init"
    /\ op' = "acpkmDerivationMaster"
    /\ out' = acpkmDerivationMaster(key, acpkm.keySectionSize, blockSize, Len(data))
    /\ UNCHANGED <<blockSize, key, data, iv, back, mgmVars, acpkm>>

\* omac_acpkm_master with s its locals before k2 is derived, or the Error
\* thrown before
OmacWith(s) ==
    /\ out' = Try(s, LAMBDA locals :
                  omacFinal(locals, blockSize,
                            subarrayFrom(data, omacTailOffset(data, blockSize))))
    /\ acpkm' = [acpkm EXCEPT
                    !.sections = omacSections(data, acpkm.sectionSize),
                    !.keymats  = (KEYSIZE + blockSize)
                                    * omacSections(data, acpkm.sectionSize),
                    !.locals   = s.val]

OmacAcpkmMaster ==
    /\ op = "init"
    /\ Len(data) <= MaxOmacLen
    /\ op' = "omac_acpkm_master"
    /\ OmacWith(omacLocals(key, acpkm.keySectionSize, acpkm.sectionSize,
                           blockSize, data))
    /\ UNCHANGED <<blockSize, key, data, iv, back, mgmVars>>

NextAcpkm ==
    \/ AcpkmDerivation
    \/ CtrAcpkm \/ CtrAcpkmAgain
    \/ AcpkmDerivationMaster
    \/ OmacAcpkmMaster

SpecAcpkm == InitAcpkm /\ [][NextAcpkm]_vars

-----------------------------------------------------------------------------
(* MGM: an instance, seal, and open of what was sealed, of what was sealed  *)
(* with one bit flipped, or of a forged input                               *)

\* The keys of the MGM instances.  Under the key FF .. FF the cipher maps the
\* zero block to FF .. FF.
MgmKeys == {<<0>>, <<255>>, <<58, 92, 158>>}

\* The instances the constructor makes: tag sizes 4 and blockSize, and the
\* default.
Instances ==
    {MGM_constructor(k, bs, <<t>>).val : k \in MgmKeys, bs \in {8, 16}, t \in {4, 8}}
    \cup {MGM_constructor(k, bs, <<>>).val : k \in MgmKeys, bs \in {8, 16}}

\* Nonces of one block: 00 .. 00, and one with its top bit set.
Nonces(bs) == {Zeros(bs), Pattern(bs, 201)}

\* Plaintexts: none, one octet, one block, a block and three octets.
Plaintexts(bs) == {Pattern(len, 5) : len \in {0, 1, bs, bs + 3}}

\* Additional data: none, three octets, one block.
Additionals(bs) == {Pattern(len, 90) : len \in {0, 3, bs}}

\* a with bit b of its octet i (from 1) flipped
FlipBit(a, i, b) == [a EXCEPT ![i] = ByteXor(@, 2 ^ b)]

\* The top bit of the first octet and the low bit of the last octet of
\* a[from .. to], flipped one at a time.
Flips(a, from, to) ==
    IF to < from THEN {} ELSE {FlipBit(a, from, 7), FlipBit(a, to, 0)}

\* What reaches open after seal returned c for additional data ad: c and ad
\* as they are, or with one bit of the body, of the tag or of ad flipped.
Transmitted(c, ad, tag_size) ==
    LET body == Len(c) - tag_size
    IN  {[ciphertext |-> c, additional_data |-> ad, tamper |-> "none"]}
        \cup {[ciphertext |-> f, additional_data |-> ad, tamper |-> "body"]
                 : f \in Flips(c, 1, body)}
        \cup {[ciphertext |-> f, additional_data |-> ad, tamper |-> "tag"]
                 : f \in Flips(c, body + 1, Len(c))}
        \cup {[ciphertext |-> c, additional_data |-> f, tamper |-> "ad"]
                 : f \in Flips(ad, 1, Len(ad))}

\* Inputs of open that no seal made: nothing but a tag of zeros, and two
\* octets, fewer than any tag.
Forged(tag_size) ==
    {[ciphertext |-> Zeros(n), additional_data |-> <<>>, tamper |-> "forged"]
        : n \in {2, tag_size}}

\* The state after new MGM(encrypter, blockSize, tagSize)
Init ==
    /\ op = "init"
    /\ mgm \in Instances
    /\ blockSize = mgm.blockSize
    /\ key = mgm.encrypter
    /\ data = <<>>
    /\ iv = <<>>
    /\ out = None
    /\ back = NotOpened
    /\ nonce = <<>>
    /\ additional = <<>>
    /\ received = NotReceived
    /\ steps = 0
    /\ nonceBuf = <<>>
    /\ acpkm = NoRekeying

Seal ==
    /\ op = "init"
    /\ \E n \in Nonces(blockSize), p \in Plaintexts(blockSize),
          ad \in Additionals(blockSize) :
          /\ nonce' = n
          /\ data' = p
          /\ additional' = ad
          /\ out' = seal(mgm, n, p, ad)
          /\ nonceBuf' = callerNonce(n, sealIcn(mgm, n, p, ad))
    /\ op' = "seal"
    /\ UNCHANGED <<blockSize, key, iv, back, mgm, received, steps, acpkm>>

\* n with the top bit of its first octet flipped
OtherNonce(n) == [n EXCEPT ![1] = (@ + 128) % 256]

\* open(n, input, ad) with tag what openTag returned or threw, and opened
\* what open then returns or throws; steps is what the comparison of the tags
\* examined, when open came to it.
OpenWith(n, rc, tag, opened) ==
    /\ received' = [ciphertext |-> rc.ciphertext,
                    additional_data |-> rc.additional_data,
                    tamper |-> rc.tamper, nonce |-> n]
    /\ back' = opened
    /\ steps' \in (IF tag.err # "" THEN {0}
                   ELSE EqualsSteps(open_tag_expected(mgm, rc.ciphertext), tag.val))
    /\ nonceBuf' = callerNonce(n, openIcn(mgm, n, rc.ciphertext, rc.additional_data,
                                          opened))
    /\ op' = "open"

OpenTagged(n, rc, tag) ==
    OpenWith(n, rc, tag, openCompare(mgm, n, rc.ciphertext, tag))

OpenOn(n, rc) ==
    OpenTagged(n, rc, openTag(mgm, n, rc.ciphertext, rc.additional_data))

\* open of what seal returned, as it is or with one bit flipped
Open ==
    /\ op = "seal"
    /\ out.err = ""
    /\ \E rc \in Transmitted(out.val, additional, mgm.tag_size) : OpenOn(nonce, rc)
    /\ UNCHANGED <<blockSize, key, data, iv, out, mgm, nonce, additional, acpkm>>

\* open of what seal returned, with the nonce whose top bit is the other one
OpenOtherNonce ==
    /\ op = "seal"
    /\ out.err = ""
    /\ OpenOn(OtherNonce(nonce),
              [ciphertext |-> out.val, additional_data |-> additional,
               tamper |-> "none"])
    /\ UNCHANGED <<blockSize, key, data, iv, out, mgm, nonce, additional, acpkm>>

\* open of an input that no seal made
OpenForged ==
    /\ op = "init"
    /\ \E n \in Nonces(blockSize), rc \in Forged(mgm.tag_size) :
          /\ nonce' = n
          /\ OpenOn(n, rc)
    /\ UNCHANGED <<blockSize, key, data, iv, out, mgm, additional, acpkm>>

Next == Seal \/ Open \/ OpenOtherNonce \/ OpenForged

Spec == Init /\ [][Next]_vars

-----------------------------------------------------------------------------
(* The multiplier, the counters and crypt of an MGM instance, called on     *)
(* blocks                                                                   *)

\* Blocks: 0, 1, x, the top bit, all ones, two patterns, a carry out of the
\* low octet, and a low and a high half of FF .. FF.
Blocks(bs) ==
    {Zeros(bs), Zeros(bs - 1) \o <<1>>, Zeros(bs - 1) \o <<2>>,
     <<128>> \o Zeros(bs - 1), Fill(bs, 255), Pattern(bs, 5), Pattern(bs, 201),
     Pattern(bs - 1, 90) \o <<255>>,
     Pattern(bs \div 2, 7) \o Fill(bs \div 2, 255),
     Fill(bs \div 2, 255) \o Pattern(bs \div 2, 7)}

\* Payloads of crypt: one octet, a block and three octets, two blocks and an
\* octet.
Payloads(bs) == {Pattern(len, 5) : len \in {1, bs + 3, (2 * bs) + 1}}

\* data is the first block (an operand, a counter register, a nonce), iv the
\* second operand or the payload.
InitBlocks ==
    /\ op = "init"
    /\ mgm \in {MGM_constructor(k, bs, <<>>).val : k \in MgmKeys, bs \in {8, 16}}
    /\ blockSize = mgm.blockSize
    /\ key = mgm.encrypter
    /\ data \in Blocks(blockSize)
    /\ iv \in Blocks(blockSize) \cup Payloads(blockSize)
    /\ out = None
    /\ back = None
    /\ nonce = <<>>
    /\ additional = <<>>
    /\ received = NotReceived
    /\ steps = 0
    /\ nonceBuf = <<>>
    /\ acpkm = NoRekeying

\* mul(a, b)
Mul ==
    /\ op = "init"
    /\ Len(iv) = blockSize
    /\ op' = "mul"
    /\ out' = mul(mgm, data, iv)
    /\ UNCHANGED <<blockSize, key, data, iv, back, mgmVars, acpkm>>

\* mul(b, a), after mul(a, b)
MulSwapped ==
    /\ op = "mul"
    /\ op' = "mul swapped"
    /\ back' = mul(mgm, iv, data)
    /\ UNCHANGED <<blockSize, key, data, iv, out, mgmVars, acpkm>>

IncrR ==
    /\ op = "init"
    /\ op' = "incr_r"
    /\ out' = incr_r(data, blockSize)
    /\ UNCHANGED <<blockSize, key, data, iv, back, mgmVars, acpkm>>

IncrL ==
    /\ op = "init"
    /\ op' = "incr_l"
    /\ out' = incr_l(data, blockSize)
    /\ UNCHANGED <<blockSize, key, data, iv, back, mgmVars, acpkm>>

\* crypt(icn, payload) with icn a copy of the nonce
Crypt ==
    /\ op = "init"
    /\ iv \in Payloads(blockSize)
    /\ op' = "crypt"
    /\ out' = crypt(mgm, data, iv)
    /\ UNCHANGED <<blockSize, key, data, iv, back, mgmVars, acpkm>>

NextBlocks == Mul \/ MulSwapped \/ IncrR \/ IncrL \/ Crypt

SpecBlocks == InitBlocks /\ [][NextBlocks]_vars

-----------------------------------------------------------------------------
(* Properties of the padding procedures (SpecPad) *)

\* p is x, then 0x80, then the fewest zero octets that make a whole number of
\* blocks.
IsPad2Of(x, bs, p) ==
    p = x \o <<128>> \o Zeros((bs - ((Len(x) + 1) % bs)) % bs)

\* C7: pad2(x, bs) is x followed by 0x80 and zeros, its length a multiple of bs
\* and greater than |x|, and unpad2(pad2(x, bs), bs) returns x, whatever x ends
\* with.
C7_Pad2RoundTrip ==
    /\ op \in {"pad2", "unpad2"} =>
          /\ Len(out.val) % blockSize = 0
          /\ Len(out.val) > Len(data)
          /\ IsPad2Of(data, blockSize, out.val)
    /\ op = "unpad2" => back = Ok(data)

\* C7 witness: unpad2 has returned an input that itself ends with 0x80.
C7_Witness ==
    /\ op = "unpad2"
    /\ Len(data) > 0
    /\ data[Len(data)] = 128
    /\ back = Ok(data)

\* The least multiple of bs that is >= n.
RoundUp(n, bs) == ((n + bs - 1) \div bs) * bs

\* C8: pad1 zero-extends its input to the smallest multiple of the block size
\* >= the input's length, the input a prefix of the result, and pad1 of the
\* zero-length input is zero-length.
C8_Pad1AsClaimed ==
    op = "pad1" =>
        /\ out.val = data \o Zeros(Len(out.val) - Len(data))
        /\ Len(out.val) = RoundUp(Len(data), blockSize)
        /\ (data = <<>> => out.val = <<>>)

\* C9 as claimed: pad3 returns its input exactly when the input's length is a
\* multiple of the block size, zero included, and pad2 of it otherwise.
C9_Pad3AsClaimed ==
    op = "pad3" =>
        /\ (out.val = data) <=> (Len(data) % blockSize = 0)
        /\ (Len(data) % blockSize # 0) => IsPad2Of(data, blockSize, out.val)

\* C9 amended: pad3 returns its input exactly when the input's length is a
\* positive multiple of the block size; of every other input, the zero-length
\* one included, it returns pad2.
C9_Pad3 ==
    op = "pad3" =>
        LET aligned == Len(data) > 0 /\ Len(data) % blockSize = 0
        IN  /\ (out.val = data) <=> aligned
            /\ ~aligned => IsPad2Of(data, blockSize, out.val)

\* C9 witness: pad3 of the zero-length input has returned the block 80 00 .. 00.
C9_Witness ==
    /\ op = "pad3"
    /\ data = <<>>
    /\ out = Ok(<<128>> \o Zeros(blockSize - 1))

-----------------------------------------------------------------------------
(* Properties of the modes (SpecModes) *)

Aligned == Len(data) > 0 /\ Len(data) % blockSize = 0

RegisterIV == Len(iv) > 0 /\ Len(iv) % blockSize = 0

\* C4: with a block permutation and its inverse, a register IV of one or more
\* blocks (half a block for CTR): ECB and CBC return every non-empty aligned
\* input after encrypt and decrypt; CFB, OFB and CTR return every input,
\* of any length; the ciphertext has the input's length.
C4_ModeRoundTrip ==
    /\ (op = "ecb_encrypt" /\ Aligned) => out.err = ""
    /\ (op = "cbc_encrypt" /\ Aligned /\ RegisterIV) => out.err = ""
    /\ (op \in {"cfb_encrypt", "ofb"} /\ RegisterIV) => out.err = ""
    /\ (op = "ctr" /\ Len(iv) = blockSize \div 2) => out.err = ""
    /\ (op \in {"ecb_encrypt", "cbc_encrypt", "cfb_encrypt", "ofb", "ctr"}
           /\ out.err = "") => Len(out.val) = Len(data)
    /\ op \in {"ecb_decrypt", "cbc_decrypt", "cfb_decrypt", "ofb again", "ctr again"}
          => back = Ok(data)

\* C4 witness: cbc_decrypt has returned an input of three or more blocks of 8
\* octets that was encrypted with a register of two blocks.
C4_Witness ==
    /\ op = "cbc_decrypt"
    /\ blockSize = 8
    /\ Len(iv) = 2 * blockSize
    /\ Len(data) >= 3 * blockSize
    /\ back = Ok(data)

\* C5: the MGM constructor and every mode function reject a block size other
\* than 8 or 16 with the invalid-block-size error and return no result.
C5_BlockSizeRejected ==
    (op # "init" /\ blockSize \notin {8, 16}) =>
        /\ out.err = "Only 64/128-bit block size"
        /\ out.val = <<>>

\* block << 1 on the octets of a block, the bit shifted out at the top dropped
ShiftLeft1(block) ==
    [i \in 1..Len(block) |->
        ((block[i] * 2) % 256)
        + (IF i < Len(block) THEN block[i + 1] \div 128 ELSE 0)] \o <<>>

\* The CMAC subkey made from block: block << 1, XOR Rb into the last octet
\* when the top bit of block is set.
CmacSubkey(block, Rb) ==
    LET sh == ShiftLeft1(block)
    IN  IF block[1] >= 128
        THEN [sh EXCEPT ![Len(sh)] = ByteXor(@, Rb)]
        ELSE sh

\* C6: for every L = E(0 .. 0), the top bit of L set or not, macKs returns
\* K1 = CmacSubkey(L) and K2 = CmacSubkey(K1) with Rb = 0x87 for 16-octet and
\* 0x1B for 8-octet blocks, each a block long, and mac returns a MAC of one
\* block, not an error.
C6_CmacSubkeys ==
    LET Rb == IF blockSize = 16 THEN 135 ELSE 27
        L  == encrypter(key, Zeros(blockSize))
        K1 == CmacSubkey(L, Rb)
        K2 == CmacSubkey(K1, Rb)
    IN  /\ (op = "macKs" /\ blockSize \in {8, 16}) => out = Ok(<<K1, K2>>)
        /\ (op = "mac" /\ blockSize \in {8, 16}) =>
              /\ out.err = ""
              /\ Len(out.val) = blockSize

-----------------------------------------------------------------------------
(* Properties of MGM (Spec) *)

\* C1: seal of every nonce and every (p, ad) not both empty returns, and open
\* of what it returned, with the same nonce and ad, returns exactly p without
\* an error.
C1_MgmRoundTrip ==
    /\ (op \in {"seal", "open"} /\ (data # <<>> \/ additional # <<>>)) => out.err = ""
    /\ (op = "open" /\ received.tamper = "none") =>
          /\ back.err = ""
          /\ back.val = data

OpenPayloadLen == Max(Len(received.ciphertext) - mgm.tag_size, 0)

SizeErrors == {"At least one of plaintext or additional_data required",
               "plaintext+additional_data are too big"}

\* C3: seal and open are rejected with a size error when the payload (the
\* plaintext of seal, the input of open without its tag) and the additional
\* data are both empty, and never on size grounds when one of them is not
\* empty and their lengths together are at most max_size.
C3_SizePreconditions ==
    /\ op = "seal" =>
          (out.err \in SizeErrors) <=> (data = <<>> /\ additional = <<>>)
    /\ op = "open" =>
          (back.err \in SizeErrors)
              <=> (OpenPayloadLen = 0 /\ received.additional_data = <<>>)

\* C10: whenever open compared a received tag of tag_size octets with the tag
\* it recomputed, the comparison examined every octet of the tag, wherever the
\* first difference is.
C10_ConstantTimeCompare ==
    (/\ op = "open"
     /\ back.err \in {"", "Invalid authentication tag"}
     /\ Len(received.ciphertext) >= mgm.tag_size) =>
        steps = mgm.tag_size

-----------------------------------------------------------------------------
(* Properties of the multiplier and the counters (SpecBlocks) *)

\* The unsigned big-endian integer of octets b, as the set of its 1 bits
FromBE(b) ==
    {j \in 0..((8 * Len(b)) - 1) : (b[Len(b) - (j \div 8)] \div (2 ^ (j % 8))) % 2 = 1}

\* The low 8 len bits of n as len octets, big-endian
ToBE(n, len) ==
    [t \in 1..len |->
        LET lo == 8 * (len - t)
        IN  BigBit(n, lo) + (2 * BigBit(n, lo + 1)) + (4 * BigBit(n, lo + 2))
            + (8 * BigBit(n, lo + 3)) + (16 * BigBit(n, lo + 4))
            + (32 * BigBit(n, lo + 5)) + (64 * BigBit(n, lo + 6))
            + (128 * BigBit(n, lo + 7))] \o <<>>

\* The product of the polynomials a and b over GF(2), each the set of the
\* exponents of its terms
PolyMul(a, b) ==
    {j \in 0..(BigLen(a) + BigLen(b)) :
        Cardinality({i \in a : (j - i) \in b}) % 2 = 1}

\* p with its leading term, of degree n or more, cancelled by a multiple of f
PolyModStep(p, f, n) ==
    IF BigLen(p) <= n THEN p ELSE BigXor(p, BigShl(f, BigLen(p) - 1 - n))

\* p modulo the polynomial f of degree n
RECURSIVE PolyMod(_, _, _)
PolyMod(p, f, n) ==
    IF BigLen(p) <= n THEN p
    ELSE PolyMod(PolyModStep(PolyModStep(PolyModStep(PolyModStep(p, f, n), f, n),
                                         f, n), f, n),
                 f, n)

\* x^64 + x^4 + x^3 + x + 1 (low byte 0x1B); x^128 + x^7 + x^2 + x + 1 (0x87)
FieldPoly(bs) == IF bs = 8 THEN {64, 4, 3, 1, 0} ELSE {128, 7, 2, 1, 0}

\* The product of blocks a and b in GF(2^(8 bs)), in bs octets
GFmul(a, b, bs) ==
    ToBE(PolyMod(PolyMul(FromBE(a), FromBE(b)), FieldPoly(bs), 8 * bs), bs)

\* C11: mul(a, b) returns, without an error, the product of a and b in
\* GF(2^n) modulo the polynomial with low byte r, in exactly blockSize octets;
\* mul(b, a) returns the same, mul(a, 1) = a and mul(a, 0) = 0.
C11_MulIsFieldProduct ==
    /\ op \in {"mul", "mul swapped"} =>
          /\ out = Ok(GFmul(data, iv, blockSize))
          /\ Len(out.val) = blockSize
          /\ iv = Zeros(blockSize - 1) \o <<1>> => out.val = data
          /\ iv = Zeros(blockSize) => out.val = Zeros(blockSize)
    /\ op = "mul swapped" => back = out

\* C11 witness: mul has multiplied two blocks with their top bits set, both
\* ways round, and the product was reduced to a block that is not zero.
C11_Witness ==
    /\ op = "mul swapped"
    /\ blockSize = 16
    /\ data[1] >= 128
    /\ iv[1] >= 128
    /\ data # iv
    /\ out.err = ""
    /\ out.val # Zeros(blockSize)
    /\ back = out

\* half, a big-endian integer, plus one modulo 2^(8 Len(half))
IncrModulo(half) == ToBE(BigAdd1(FromBE(half)), Len(half))

\* block with its right half incremented modulo 2^(4 bs)
IncrRight(block, bs) ==
    SubSeq(block, 1, bs \div 2) \o IncrModulo(SubSeq(block, (bs \div 2) + 1, bs))

\* block with its left half incremented modulo 2^(4 bs)
IncrLeft(block, bs) ==
    IncrModulo(SubSeq(block, 1, bs \div 2)) \o SubSeq(block, (bs \div 2) + 1, bs)

\* The register of crypt before keystream block i: R_0 is E of the nonce
\* with its top bit cleared, R_{i+1} is R_i with its right half incremented.
RECURSIVE CryptRegister(_, _, _, _)
CryptRegister(k, bs, n, i) ==
    IF i = 0 THEN encrypter(k, [n EXCEPT ![1] = @ % 128])
    ELSE IncrRight(CryptRegister(k, bs, n, i - 1), bs)

\* C13: incr_r and incr_l return, without an error, blockSize octets: the
\* block with its right (left) half incremented as a big-endian integer
\* modulo 2^(4 blockSize) and the other half as it was, a half of FF .. FF
\* becoming 00 .. 00; and crypt returns the payload XORed with the keystream
\* whose block i is E(R_i), R_0 = E(nonce with its top bit cleared),
\* R_{i+1} = incr_r(R_i).
C13_CounterEvolution ==
    /\ op = "incr_r" => out = Ok(IncrRight(data, blockSize))
    /\ op = "incr_l" => out = Ok(IncrLeft(data, blockSize))
    /\ op = "crypt" =>
          out = Ok(xor(concatAll([i \in 1..((Len(iv) + blockSize - 1) \div blockSize) |->
                                    encrypter(key, CryptRegister(key, blockSize, data, i - 1))]),
                       iv))

-----------------------------------------------------------------------------
(* Properties of the ACPKM modes (SpecAcpkm) *)

\* The key of section j: the caller's key for section 0, and for section
\* j + 1 what acpkmDerivation makes under the key of section j.
RECURSIVE SectionKey(_, _, _)
SectionKey(k, bs, j) ==
    IF j = 0 THEN k ELSE acpkmDerivation(SectionKey(k, bs, j - 1), bs)

\* The keystream blocks 0 .. n - 1 of CTR-ACPKM with sections of perSection
\* blocks: block i is E under the key of section i div perSection of
\* iv || to_be(i, bs / 2).
CtrAcpkmKeystream(k, bs, v, perSection, n) ==
    concatAll([i \in 1..n |->
                 encrypter(SectionKey(k, bs, (i - 1) \div perSection),
                           v \o ToBE(BigFromNat(i - 1), bs \div 2))])

\* The section boundaries crossed by n blocks, and the constructor call due
\* at each: before block j perSection, with the key of section j.
CtrAcpkmCalls(k, bs, perSection, n) ==
    [j \in 1..(IF n = 0 THEN 0 ELSE (n - 1) \div perSection) |->
        [ctr |-> j * perSection, key |-> SectionKey(k, bs, j)]]

\* C12: with a section size N that is a positive multiple of blockSize,
\* ctr_acpkm returns the data XORed with the keystream whose block i is
\* E_{K_j}(IV || to_be(i, blockSize/2)), j = i div (N/blockSize), K_0 the
\* caller's key and K_{j+1} = acpkmDerivation under K_j; the cipher
\* constructor is called once for each section boundary crossed, before the
\* first block of the new section, and never before block 0.
C12_CtrAcpkmSchedule ==
    (/\ op \in {"ctr_acpkm", "ctr_acpkm again"}
     /\ acpkm.sectionSize > 0
     /\ acpkm.sectionSize % blockSize = 0) =>
        LET perSection == acpkm.sectionSize \div blockSize
            n == (Len(data) + blockSize - 1) \div blockSize
        IN  /\ out = Ok(xor(CtrAcpkmKeystream(key, blockSize, iv, perSection, n), data))
            /\ acpkm.cipherClass = CtrAcpkmCalls(key, blockSize, perSection, n)

\* C12 witness: ctr_acpkm has run over four sections of one block each, so
\* over three boundaries, and the key of the second section is not the
\* caller's.
C12_Witness ==
    /\ op = "ctr_acpkm"
    /\ acpkm.sectionSize = blockSize
    /\ Len(data) > 3 * blockSize
    /\ out.err = ""
    /\ Len(acpkm.cipherClass) = 3
    /\ acpkm.cipherClass[1].key # key
    /\ acpkm.cipherClass[2].key # acpkm.cipherClass[1].key

\* The (key, K1) tuples the last omac_acpkm_master took from the key material
OmacTuples == acpkm.locals.tuples

\* The key material omac_acpkm_master pre-derived
OmacMaterial ==
    acpkmDerivationMaster(key, acpkm.keySectionSize, blockSize, acpkm.keymats).val

\* C14: omac_acpkm_master computes sections = ceil(|data| / sectionSize),
\* pre-derives exactly (KEYSIZE + blockSize) sections octets, and every
\* (key, K1) tuple it takes is KEYSIZE + blockSize octets of that material,
\* the tuples following one another in it (sectionSize being a positive
\* multiple of blockSize).
C14_KeyMaterialSizing ==
    (op = "omac_acpkm_master" /\ acpkm.sectionSize % blockSize = 0) =>
        LET sections == (Len(data) + acpkm.sectionSize - 1) \div acpkm.sectionSize
        IN  /\ acpkm.sections = sections
            /\ acpkm.keymats = (KEYSIZE + blockSize) * sections
            /\ \A j \in 1..Len(OmacTuples) :
                  /\ Len(OmacTuples[j].key) = KEYSIZE
                  /\ Len(OmacTuples[j].k1) = blockSize
                  /\ OmacTuples[j].key \o OmacTuples[j].k1
                        = SubSeq(OmacMaterial, ((j - 1) * (KEYSIZE + blockSize)) + 1,
                                 j * (KEYSIZE + blockSize))

\* C15: for every input that is not empty, omac_acpkm_master ends with a K1
\* of blockSize octets and returns, without an error, the blockSize octets
\* E(pad3(tail) XOR chain XOR K), E being the current block function and K
\* being K1 when the tail is a whole block and else K2, the CMAC subkey of K1
\* (sectionSize being a positive multiple of blockSize).
C15_OmacFinalStep ==
    (op = "omac_acpkm_master" /\ data # <<>> /\ acpkm.sectionSize % blockSize = 0) =>
        LET s == acpkm.locals
            tail == SubSeq(data, omacTailOffset(data, blockSize) + 1, Len(data))
            Rb == IF blockSize = 16 THEN 135 ELSE 27
        IN  /\ out.err = ""
            /\ Len(s.k1) = blockSize
            /\ Len(out.val) = blockSize
            /\ out.val = encrypter(s.key,
                                   xor(xor(pad3(tail, blockSize), s.prev),
                                       IF Len(tail) = blockSize THEN s.k1
                                       ELSE CmacSubkey(s.k1, Rb)))

-----------------------------------------------------------------------------
(* Properties of MGM's use of the nonce (Spec) *)

\* C16: seal of (p, ad) not both empty returns, whatever the top bit of the
\* nonce's first octet, and returns the same for the nonce with that bit
\* flipped; open of what it returned gives p back under either of the two
\* nonces; and seal and open leave the caller's nonce buffer as it was.
C16_NonceTopBitIgnored ==
    /\ (op = "seal" /\ (data # <<>> \/ additional # <<>>)) =>
          /\ out.err = ""
          /\ seal(mgm, OtherNonce(nonce), data, additional) = out
          /\ nonceBuf = nonce
    /\ (op = "open" /\ received.tamper = "none") =>
          /\ received.nonce \in {nonce, OtherNonce(nonce)}
          /\ back.err = ""
          /\ back.val = data
          /\ nonceBuf = received.nonce

=============================================================================
